---- MODULE Spec2Model ----
(***************************************************************************)
(* rouille, src/input/json.rs: the JSON request-body decoder.              *)
(*                                                                         *)
(* Two specifications over one set of variables:                           *)
(*   SpecCheckNull  builds JSON value trees of bounded depth and applies   *)
(*                  check_null to them;                                    *)
(*   Spec           runs json_input (and a second body extractor) on two   *)
(*                  requests in every interleaving.                        *)
(***************************************************************************)
EXTENDS Integers, Sequences, FiniteSets, TLC

VARIABLES
    value,      \* SpecCheckNull: the serde_json::Value tree under validation
    checked,    \* SpecCheckNull: <<>> or <<r>>, r the Result of check_null(&value)
    requests,   \* Spec: request -> [header, body, taken]
    hist        \* Spec: request -> the operations run on it, with their results

vars == <<value, checked, requests, hist>>

(***************************************************************************)
(* Bounds of the model.                                                    *)
(***************************************************************************)
MaxDepth == 3

MaxOps == 3

(***************************************************************************)
(* serde_json::Value. A string is the sequence of its code points.         *)
(***************************************************************************)
NUL == 0

Null == [tag |-> "Null"]

Bool(b) == [tag |-> "Bool", b |-> b]

Number(n) == [tag |-> "Number", n |-> n]

String(s) == [tag |-> "String", s |-> s]

Array(a) == [tag |-> "Array", a |-> a]

\* o is the sequence of the map's <<key, value>> entries in iteration order.
Object(o) == [tag |-> "Object", o |-> o]

(***************************************************************************)
(* JsonError and Result.                                                   *)
(***************************************************************************)
BodyAlreadyExtracted == [kind |-> "BodyAlreadyExtracted"]

WrongContentType == [kind |-> "WrongContentType"]

NullPresent == [kind |-> "NullPresent"]

\* cause: the wrapped std::io::Error
IoError(cause) == [kind |-> "IoError", cause |-> cause]

\* cause: the wrapped serde_json::Error
ParseError(cause) == [kind |-> "ParseError", cause |-> cause]

Ok(v) == [ok |-> TRUE, v |-> v]

Err(e) == [ok |-> FALSE, e |-> e]

(***************************************************************************)
(* check_null                                                              *)
(***************************************************************************)
RECURSIVE str_find_from(_, _, _)
\* str::find for a one-code-point pattern: the first index >= i (1-based) at
\* which c occurs in s, as <<index>>, or <<>> (None).
str_find_from(s, c, i) ==
    IF i > Len(s) THEN <<>>
    ELSE IF s[i] = c THEN <<i>>
    ELSE str_find_from(s, c, i + 1)

str_find(s, c) == str_find_from(s, c, 1)

\* A slip: is_none() for is_some().
has_nul_inverted(s) == str_find(s, NUL) = <<>>

\* s.find("\0").is_some()
has_nul(s) == str_find(s, NUL) # <<>>

RECURSIVE check_null(_)
RECURSIVE check_array(_, _)
RECURSIVE check_object(_, _)
RECURSIVE check_object_no_key(_, _)

\* A slip: the loop returns after its first element.
check_array_first_only(a, i) ==
    IF i > Len(a) THEN Ok(a)
    ELSE check_null(a[i])

\* for element in a { check_null(element)?; }  from element i on
check_array(a, i) ==
    IF i > Len(a) THEN Ok(a)
    ELSE IF ~check_null(a[i]).ok THEN check_null(a[i])
    ELSE check_array(a, i + 1)

\* A slip: the keys are not looked at.
check_object_no_key(o, i) ==
    IF i > Len(o) THEN Ok(o)
    ELSE IF ~check_null(o[i][2]).ok THEN check_null(o[i][2])
    ELSE check_object_no_key(o, i + 1)

\* for (k, v) in o { if k.find("\0").is_some() { return Err }; check_null(v)?; }
check_object(o, i) ==
    IF i > Len(o) THEN Ok(o)
    ELSE IF has_nul(o[i][1]) THEN Err(NullPresent)
    ELSE IF ~check_null(o[i][2]).ok THEN check_null(o[i][2])
    ELSE check_object(o, i + 1)

check_null(v) ==
    IF v.tag = "String" THEN
        IF has_nul(v.s) THEN Err(NullPresent) ELSE Ok(v)
    ELSE IF v.tag = "Array" THEN
        IF ~check_array(v.a, 1).ok THEN check_array(v.a, 1) ELSE Ok(v)
    ELSE IF v.tag = "Object" THEN
        IF ~check_object(v.o, 1).ok THEN check_object(v.o, 1) ELSE Ok(v)
    ELSE Ok(v)

(***************************************************************************)
(* The value trees check_null is applied to. A tree grows from a leaf by   *)
(* being wrapped in an array or an object, next to at most one sibling.    *)
(***************************************************************************)
RECURSIVE key_lt(_, _)
\* The byte order of String keys, in which serde_json's Map iterates.
key_lt(a, b) ==
    IF Len(b) = 0 THEN FALSE
    ELSE IF Len(a) = 0 THEN TRUE
    ELSE IF a[1] # b[1] THEN a[1] < b[1]
    ELSE key_lt(Tail(a), Tail(b))

\* The entries of a map holding k1 -> v1 and k2 -> v2 (k1 # k2), in key order.
map_of_two(k1, v1, k2, v2) ==
    IF key_lt(k1, k2) THEN <<(<<k1, v1>>), (<<k2, v2>>)>>
    ELSE <<(<<k2, v2>>), (<<k1, v1>>)>>

set_max(S) == CHOOSE m \in S : \A n \in S : n <= m

RECURSIVE depth_of(_)
\* The nesting depth of v: 0 for a scalar, 1 + its deepest member for a container.
depth_of(v) ==
    IF v.tag = "Array" THEN
        1 + set_max({0} \cup {depth_of(v.a[i]) : i \in DOMAIN v.a})
    ELSE IF v.tag = "Object" THEN
        1 + set_max({0} \cup {depth_of(v.o[i][2]) : i \in DOMAIN v.o})
    ELSE 0

\* "x", "x\0x" (a NUL inside), "\0" (only a NUL)
StrX == <<120>>

StrXNulX == <<120, NUL, 120>>

StrNul == <<NUL>>

\* "a" and "b\0"
KeyA == <<97>>

KeyBNul == <<98, NUL>>

ObjKeys == {KeyA, KeyBNul}

Leaves ==
    {Null, Bool(TRUE), Number(43), String(StrX), String(StrXNulX), String(StrNul),
     Array(<<>>), Object(<<>>)}

Siblings ==
    {Object(<< <<KeyA, String(StrX)>> >>),
     Array(<<Number(43), String(StrNul)>>),
     Object(<< <<KeyBNul, Null>> >>)}

InitCheckNull ==
    /\ value \in Leaves
    /\ checked = <<>>
    /\ requests = <<>>
    /\ hist = <<>>

\* Value::Array: value alone, or with one sibling before or after it.
WrapArray ==
    /\ depth_of(value) < MaxDepth
    /\ \E a \in {<<value>>} \cup {<<s, value>> : s \in Siblings}
                          \cup {<<value, s>> : s \in Siblings} :
            value' = Array(a)
    /\ checked' = <<>>
    /\ UNCHANGED <<requests, hist>>

\* Value::Object: value under key k, alone or next to one other entry.
WrapObject ==
    /\ depth_of(value) < MaxDepth
    /\ \E k \in ObjKeys :
            \/ value' = Object(<< <<k, value>> >>)
            \/ \E k2 \in ObjKeys \ {k}, s \in Siblings :
                    value' = Object(map_of_two(k, value, k2, s))
    /\ checked' = <<>>
    /\ UNCHANGED <<requests, hist>>

\* let r = check_null(&value);
CheckNull ==
    /\ checked = <<>>
    /\ checked' = <<check_null(value)>>
    /\ UNCHANGED <<value, requests, hist>>

NextCheckNull == WrapArray \/ WrapObject \/ CheckNull

SpecCheckNull == InitCheckNull /\ [][NextCheckNull]_vars

(***************************************************************************)
(* json_input                                                              *)
(***************************************************************************)
Reqs == {1, 2}

\* A header value is the sequence of its characters.
ApplicationJson == <<"a", "p", "p", "l", "i", "c", "a", "t", "i", "o", "n", "/", "j", "s", "o", "n">>

HdrJsonCharset == <<"a", "p", "p", "l", "i", "c", "a", "t", "i", "o", "n", "/", "j", "s", "o", "n", ";", " ", "c", "h", "a", "r", "s", "e", "t", "=", "u", "t", "f", "-", "8">>

HdrJsonLines == <<"a", "p", "p", "l", "i", "c", "a", "t", "i", "o", "n", "/", "j", "s", "o", "n", "l", "i", "n", "e", "s">>

HdrTextPlain == <<"t", "e", "x", "t", "/", "p", "l", "a", "i", "n">>

HdrUpperCase == <<"A", "p", "p", "l", "i", "c", "a", "t", "i", "o", "n", "/", "J", "S", "O", "N">>

HdrTruncated == <<"a", "p", "p", "l", "i", "c", "a", "t", "i", "o", "n", "/", "j", "s", "o">>

\* The Content-Type of a request: <<>> when the header is absent, else <<value>>.
Headers ==
    {<<>>, <<ApplicationJson>>, <<HdrJsonCharset>>, <<HdrJsonLines>>,
     <<HdrTextPlain>>, <<HdrUpperCase>>, <<HdrTruncated>>}

\* "field1", "field2", "name", "name\0"
Field1 == <<102, 105, 101, 108, 100, 49>>

Field2 == <<102, 105, 101, 108, 100, 50>>

KeyName == <<110, 97, 109, 101>>

KeyNameNul == <<110, 97, 109, 101, NUL>>

\* "Sarah", "Sarah\0"
StrSarah == <<83, 97, 114, 97, 104>>

StrSarahNul == <<83, 97, 114, 97, 104, NUL>>

\* {"field1": "x", "field2": 5}
DocGood == Object(<< <<Field1, String(StrX)>>, <<Field2, Number(5)>> >>)

\* {"field1": "x\0x", "field2": 5}
DocGoodNul == Object(<< <<Field1, String(StrXNulX)>>, <<Field2, Number(5)>> >>)

\* {"field1": "x", "field2": 5, "name\0": "Sarah"}
DocGoodNulKey ==
    Object(<< <<Field1, String(StrX)>>, <<Field2, Number(5)>>,
              <<KeyNameNul, String(StrSarah)>> >>)

\* {"name": "Sarah"}
DocSarah == Object(<< <<KeyName, String(StrSarah)>> >>)

\* {"name": "Sarah\0"}
DocSarahNul == Object(<< <<KeyName, String(StrSarahNul)>> >>)

\* What the body stream of a request holds: a stream whose read fails, bytes
\* that are not UTF-8, text that is not JSON ({"age": }), or a JSON document.
Bodies ==
    {[kind |-> "read_error"], [kind |-> "invalid_utf8"], [kind |-> "syntax_error"]}
    \cup {[kind |-> "json", doc |-> d] :
            d \in {DocGood, DocGoodNul, DocGoodNulKey, DocSarah, DocSarahNul}}

\* serde_json::Error
SerdeError(category, code) == [category |-> category, code |-> code]

\* Request::header("Content-Type")
header(rq) == rq.header

\* Request::data(): the body stream, once; <<>> (None) from then on.
data(rq) == IF rq.taken THEN <<>> ELSE <<rq.body>>

\* The request after a call of Request::data().
after_data(rq) == [rq EXCEPT !.taken = TRUE]

RECURSIVE starts_with_from(_, _, _)
starts_with_from(s, p, i) ==
    IF i > Len(p) THEN TRUE
    ELSE IF i > Len(s) THEN FALSE
    ELSE IF s[i] # p[i] THEN FALSE
    ELSE starts_with_from(s, p, i + 1)

\* A slip: == for starts_with.
starts_with_equal(s, p) == s = p

\* str::starts_with
starts_with(s, p) == starts_with_from(s, p, 1)

\* serde_json::from_reader(b): Result<Value, serde_json::Error>
from_reader(b) ==
    IF b.kind = "json" THEN Ok(b.doc)
    ELSE IF b.kind = "read_error" THEN Err(SerdeError("Io", "io"))
    ELSE IF b.kind = "invalid_utf8" THEN Err(SerdeError("Syntax", "invalid unicode code point"))
    ELSE Err(SerdeError("Syntax", "expected value"))

IsI32(v) == v.tag = "Number" /\ v.n >= -2147483647 - 1 /\ v.n <= 2147483647

\* serde_json::from_value::<Json>(v) for  struct Json { field1: String, field2: i32 }
from_value(v) ==
    IF v.tag = "Object" THEN
        LET at(k) == {i \in DOMAIN v.o : v.o[i][1] = k} IN
        IF \/ \E i \in at(Field1) : v.o[i][2].tag # "String"
           \/ \E i \in at(Field2) : ~IsI32(v.o[i][2])
        THEN Err(SerdeError("Data", "invalid type"))
        ELSE IF at(Field1) = {} \/ at(Field2) = {}
        THEN Err(SerdeError("Data", "missing field"))
        ELSE Ok([field1 |-> v.o[CHOOSE i \in at(Field1) : TRUE][2].s,
                 field2 |-> v.o[CHOOSE i \in at(Field2) : TRUE][2].n])
    ELSE IF v.tag = "Array" THEN
        IF Len(v.a) # 2 THEN Err(SerdeError("Data", "invalid length"))
        ELSE IF v.a[1].tag # "String" \/ ~IsI32(v.a[2])
        THEN Err(SerdeError("Data", "invalid type"))
        ELSE Ok([field1 |-> v.a[1].s, field2 |-> v.a[2].n])
    ELSE Err(SerdeError("Data", "invalid type"))

\* impl From<IoError> for JsonError
from_io_error(err) == Err(IoError(err))

\* A slip: the impl builds the variant of the impl above it.
from_serde_error_as_io(err) == Err(IoError(err))

\* impl From<serde_json::Error> for JsonError
from_serde_error(err) == Err(ParseError(err))

\* A slip: the typed decode runs before the NUL check.
json_body_decode_first(b) ==
    LET v == from_reader(b) IN
    IF ~v.ok THEN from_serde_error(v.e)
    ELSE IF ~from_value(v.v).ok THEN from_serde_error(from_value(v.v).e)
    ELSE IF ~check_null(v.v).ok THEN check_null(v.v)
    ELSE from_value(v.v)

\* let v: Value = serde_json::from_reader(b)?;
\* check_null(&v)?;
\* serde_json::from_value::<O>(v).map_err(From::from)
json_body(b) ==
    LET v == from_reader(b) IN
    IF ~v.ok THEN from_serde_error(v.e)
    ELSE IF ~check_null(v.v).ok THEN check_null(v.v)
    ELSE IF ~from_value(v.v).ok THEN from_serde_error(from_value(v.v).e)
    ELSE from_value(v.v)

\* The Content-Type test at the head of json_input: TRUE when it lets the call on.
content_type_ok(rq) ==
    IF header(rq) # <<>> THEN starts_with(header(rq)[1], ApplicationJson)
    ELSE FALSE

\* A slip: None from request.data() is reported as the wrong variant.
json_input_wrong_none(rq) ==
    IF ~content_type_ok(rq) THEN [res |-> Err(WrongContentType), rq |-> rq]
    ELSE IF data(rq) # <<>> THEN [res |-> json_body(data(rq)[1]), rq |-> after_data(rq)]
    ELSE [res |-> Err(WrongContentType), rq |-> after_data(rq)]

\* A slip: the body is taken before the Content-Type is looked at.
json_input_data_first(rq) ==
    IF ~content_type_ok(rq) THEN [res |-> Err(WrongContentType), rq |-> after_data(rq)]
    ELSE IF data(rq) # <<>> THEN [res |-> json_body(data(rq)[1]), rq |-> after_data(rq)]
    ELSE [res |-> Err(BodyAlreadyExtracted), rq |-> after_data(rq)]

\* json_input::<Json>(request): its result, and the request as the call leaves it.
json_input(rq) ==
    IF ~content_type_ok(rq) THEN [res |-> Err(WrongContentType), rq |-> rq]
    ELSE IF data(rq) # <<>> THEN [res |-> json_body(data(rq)[1]), rq |-> after_data(rq)]
    ELSE [res |-> Err(BodyAlreadyExtracted), rq |-> after_data(rq)]

Init ==
    /\ requests \in [Reqs -> [header : Headers, body : Bodies, taken : {FALSE}]]
    /\ hist = [r \in Reqs |-> <<>>]
    /\ value = Null
    /\ checked = <<>>

OpsDone == Len(hist[1]) + Len(hist[2])

\* A slip: the extracted state is one for the whole process.
JsonInputShared(r) ==
    /\ OpsDone < MaxOps
    /\ requests' = [q \in Reqs |->
            IF q = r THEN json_input(requests[r]).rq
            ELSE [requests[q] EXCEPT !.taken = json_input(requests[r]).rq.taken]]
    /\ hist' = [hist EXCEPT ![r] =
            Append(@, [op |-> "json_input", res |-> json_input(requests[r]).res])]
    /\ UNCHANGED <<value, checked>>

\* A handler calls json_input on request r.
JsonInput(r) ==
    /\ OpsDone < MaxOps
    /\ requests' = [requests EXCEPT ![r] = json_input(@).rq]
    /\ hist' = [hist EXCEPT ![r] =
            Append(@, [op |-> "json_input", res |-> json_input(requests[r]).res])]
    /\ UNCHANGED <<value, checked>>

\* A handler takes the body of request r itself, with request.data().
ExtractBody(r) ==
    /\ OpsDone < MaxOps
    /\ requests' = [requests EXCEPT ![r] = after_data(@)]
    /\ hist' = [hist EXCEPT ![r] = Append(@, [op |-> "data", res |-> data(requests[r])])]
    /\ UNCHANGED <<value, checked>>

Next == \E r \in Reqs : JsonInput(r) \/ ExtractBody(r)

Spec == Init /\ [][Next]_vars

(***************************************************************************)
(* What a document holds, stated apart from the walk of check_null.        *)
(***************************************************************************)
RECURSIVE StringValues(_)
\* Every string that occurs as a value in v, at any depth (v itself included).
StringValues(v) ==
    IF v.tag = "String" THEN {v.s}
    ELSE IF v.tag = "Array" THEN UNION {StringValues(v.a[i]) : i \in DOMAIN v.a}
    ELSE IF v.tag = "Object" THEN UNION {StringValues(v.o[i][2]) : i \in DOMAIN v.o}
    ELSE {}

RECURSIVE ObjectKeys(_)
\* Every key of every object in v, at any depth.
ObjectKeys(v) ==
    IF v.tag = "Array" THEN UNION {ObjectKeys(v.a[i]) : i \in DOMAIN v.a}
    ELSE IF v.tag = "Object" THEN
        {v.o[i][1] : i \in DOMAIN v.o} \cup UNION {ObjectKeys(v.o[i][2]) : i \in DOMAIN v.o}
    ELSE {}

ContainsNul(s) == \E i \in DOMAIN s : s[i] = NUL

NulInValue(v) == \E s \in StringValues(v) : ContainsNul(s)

NulInKey(v) == \E k \in ObjectKeys(v) : ContainsNul(k)

\* C1: for every JSON value D with no NUL in any string value or object key,
\* at any depth, check_null(D) returns Ok, and the value it returns is D.
C1_NoNulIsOkUnchanged ==
    (checked # <<>> /\ ~NulInValue(value) /\ ~NulInKey(value))
        => checked[1] = Ok(value)

\* A checked NUL-free document of depth 3 that holds string values and keys.
C1_Witness ==
    /\ checked # <<>>
    /\ checked[1].ok
    /\ depth_of(value) = 3
    /\ StringValues(value) # {}
    /\ ObjectKeys(value) # {}

\* C2: for every JSON value D in which some string value, at any depth (D itself
\* included), contains a NUL, check_null(D) fails with NullPresent, wherever the
\* string sits among its siblings.
C2_NulInValueIsNullPresent ==
    (checked # <<>> /\ NulInValue(value)) => checked[1] = Err(NullPresent)

\* A checked array whose first element is NUL-free and whose second element
\* holds the NUL, below an object, with no NUL in any key.
C2_Witness ==
    /\ checked # <<>>
    /\ ~NulInKey(value)
    /\ value.tag = "Object"
    /\ \E i \in DOMAIN value.o :
            LET m == value.o[i][2] IN
            /\ m.tag = "Array"
            /\ Len(m.a) = 2
            /\ ~NulInValue(m.a[1])
            /\ NulInValue(m.a[2])
    /\ checked[1] = Err(NullPresent)

\* C3: for every JSON value D in which some object key, at any depth, contains a
\* NUL, check_null(D) fails with NullPresent, whether or not any string value
\* of D contains a NUL.
C3_NulInKeyIsNullPresent ==
    (checked # <<>> /\ NulInKey(value)) => checked[1] = Err(NullPresent)

\* A checked document whose only NUL is in a key of a nested object.
C3_Witness ==
    /\ checked # <<>>
    /\ NulInKey(value)
    /\ ~NulInValue(value)
    /\ value.tag = "Array"
    /\ \E i \in DOMAIN value.a : value.a[i].tag = "Object" /\ NulInKey(value.a[i])
    /\ checked[1] = Err(NullPresent)

(***************************************************************************)
(* Claims about json_input, over the operations recorded in hist.          *)
(***************************************************************************)
\* The Content-Type h (<<>> or <<value>>) begins with "application/json".
HasJsonPrefix(h) ==
    /\ h # <<>>
    /\ Len(h[1]) >= Len(ApplicationJson)
    /\ SubSeq(h[1], 1, Len(ApplicationJson)) = ApplicationJson

\* The positions in the history of r at which json_input ran.
CallsOf(r) == {i \in DOMAIN hist[r] : hist[r][i].op = "json_input"}

\* Call i on r passed the Content-Type test and obtained the body stream: on a
\* request that passes the test every operation takes the body, so it is the first.
Obtained(r, i) == i \in CallsOf(r) /\ HasJsonPrefix(requests[r].header) /\ i = 1

IsErr(res, kind) == ~res.ok /\ res.e.kind = kind

\* The recorded operation h is a json_input call that returned res.
IsCall(h, res) == h.op = "json_input" /\ h.res = res

\* The recorded operation h is a request.data() that returned d.
IsData(h, d) == h.op = "data" /\ h.res = d

\* C4: json_input fails with WrongContentType exactly when the request has no
\* Content-Type header or its value does not begin with "application/json"
\* (case-sensitive); "application/json; charset=utf-8" and "application/jsonlines"
\* pass, "text/plain" does not.
C4_WrongContentTypeIffNoPrefix ==
    \A r \in Reqs : \A i \in CallsOf(r) :
        /\ IsErr(hist[r][i].res, "WrongContentType") <=> ~HasJsonPrefix(requests[r].header)
        /\ requests[r].header \in {<<HdrJsonCharset>>, <<HdrJsonLines>>, <<ApplicationJson>>}
                => ~IsErr(hist[r][i].res, "WrongContentType")
        /\ requests[r].header \in {<<>>, <<HdrTextPlain>>, <<HdrUpperCase>>, <<HdrTruncated>>}
                => hist[r][i].res = Err(WrongContentType)

\* A call under "application/jsonlines" went through the test and a call under
\* "Application/JSON" did not.
C4_Witness ==
    /\ requests[1].header = <<HdrJsonLines>>
    /\ 1 \in CallsOf(1)
    /\ ~IsErr(hist[1][1].res, "WrongContentType")
    /\ requests[2].header = <<HdrUpperCase>>
    /\ 1 \in CallsOf(2)
    /\ hist[2][1].res = Err(WrongContentType)

\* C5: once json_input has the body stream, an I/O failure while reading it (a
\* read error or invalid UTF-8) makes it return IoError wrapping the cause, and
\* only a syntactic JSON failure makes it return ParseError.
C5_IoFailureIsIoError ==
    \A r \in Reqs : \A i \in CallsOf(r) :
        /\ (Obtained(r, i) /\ requests[r].body.kind \in {"read_error", "invalid_utf8"})
                => IsErr(hist[r][i].res, "IoError")
        /\ (Obtained(r, i) /\ requests[r].body.kind # "json"
                /\ IsErr(hist[r][i].res, "ParseError"))
                => requests[r].body.kind = "syntax_error"

\* C6: on a request whose Content-Type passes, only the first json_input call
\* obtains the body; every later call fails with BodyAlreadyExtracted, whatever
\* the first call returned.
C6_LaterCallsAlreadyExtracted ==
    \A r \in Reqs : HasJsonPrefix(requests[r].header) =>
        /\ \A i, j \in CallsOf(r) : i < j => hist[r][j].res = Err(BodyAlreadyExtracted)
        /\ 1 \in CallsOf(r) => ~IsErr(hist[r][1].res, "BodyAlreadyExtracted")

\* Three calls on one request: the first ended NullPresent, the two after it
\* BodyAlreadyExtracted.
C6_Witness ==
    \E r \in Reqs :
        /\ CallsOf(r) = {1, 2, 3}
        /\ hist[r][1].res = Err(NullPresent)
        /\ hist[r][2].res = Err(BodyAlreadyExtracted)
        /\ hist[r][3].res = Err(BodyAlreadyExtracted)

\* C7: with the Content-Type passed, the body obtained and parsed, and no NUL in
\* any key or string value, json_input returns Ok with the target structure if
\* the typed decode succeeds and ParseError wrapping the decoder's error if it
\* fails, and nothing else.
C7_CleanBodyIsDecodeResult ==
    \A r \in Reqs : \A i \in CallsOf(r) :
        LET b == requests[r].body IN
        (Obtained(r, i) /\ b.kind = "json" /\ ~NulInValue(b.doc) /\ ~NulInKey(b.doc))
            => /\ from_value(b.doc).ok => hist[r][i].res = from_value(b.doc)
               /\ ~from_value(b.doc).ok
                    => hist[r][i].res = Err(ParseError(from_value(b.doc).e))
               /\ b.doc = DocGood
                    => hist[r][i].res = Ok([field1 |-> StrX, field2 |-> 5])
               /\ b.doc = DocSarah => IsErr(hist[r][i].res, "ParseError")

\* One request decoded {"field1": "x", "field2": 5}, the other failed to decode
\* {"name": "Sarah"}.
C7_Witness ==
    /\ requests[1].body = [kind |-> "json", doc |-> DocGood]
    /\ Obtained(1, 1)
    /\ hist[1][1].res.ok
    /\ requests[2].body = [kind |-> "json", doc |-> DocSarah]
    /\ Obtained(2, 1)
    /\ IsErr(hist[2][1].res, "ParseError")

\* C8: json_input runs Content-Type test, body acquisition, JSON parse, NUL
\* validation, typed decode in that order and returns the error of the earliest
\* stage that fails: a wrong content type wins over an extracted body, an
\* unparsable body is never NullPresent, and a NUL wins over a decode failure.
C8_EarliestStageWins ==
    \A r \in Reqs : \A i \in CallsOf(r) :
        LET b == requests[r].body
            res == hist[r][i].res
        IN
        IF ~HasJsonPrefix(requests[r].header) THEN res = Err(WrongContentType)
        ELSE IF i > 1 THEN res = Err(BodyAlreadyExtracted)
        ELSE IF b.kind # "json" THEN
            /\ ~res.ok
            /\ res.e.kind \in {"IoError", "ParseError"}
            /\ b.kind = "syntax_error" => res.e.kind = "ParseError"
        ELSE IF NulInValue(b.doc) \/ NulInKey(b.doc) THEN res = Err(NullPresent)
        ELSE IF ~from_value(b.doc).ok THEN IsErr(res, "ParseError")
        ELSE res.ok

\* A call on an extracted body under a wrong content type ended WrongContentType,
\* and a call on {"name": "Sarah\0"}, which does not decode, ended NullPresent.
C8_Witness ==
    /\ Len(hist[1]) = 2
    /\ hist[1][1].op = "data"
    /\ IsCall(hist[1][2], Err(WrongContentType))
    /\ requests[2].body = [kind |-> "json", doc |-> DocSarahNul]
    /\ ~from_value(DocSarahNul).ok
    /\ Len(hist[2]) = 1
    /\ IsCall(hist[2][1], Err(NullPresent))

\* C9: a json_input call that fails with WrongContentType does not request the
\* body stream: the body is as available after it as before, and a later
\* extraction does not come back empty because of it.
C9_WrongContentTypeKeepsBody ==
    \A r \in Reqs : \A n \in DOMAIN hist[r] :
        (\A i \in 1..n : IsCall(hist[r][i], Err(WrongContentType)))
            => /\ n = Len(hist[r]) => ~requests[r].taken
               /\ n < Len(hist[r]) /\ hist[r][n + 1].op = "data"
                    => hist[r][n + 1].res = <<requests[r].body>>

\* json_input failed with WrongContentType and the extraction that followed it
\* got the body.
C9_Witness ==
    \E r \in Reqs :
        /\ Len(hist[r]) = 2
        /\ IsCall(hist[r][1], Err(WrongContentType))
        /\ IsData(hist[r][2], <<requests[r].body>>)
        /\ requests[r].taken

RECURSIVE RunAlone(_, _)
\* The history of a request rq on which the operations ops run, and nothing else.
RunAlone(rq, ops) ==
    IF ops = <<>> THEN <<>>
    ELSE IF Head(ops) = "json_input" THEN
        <<[op |-> "json_input", res |-> json_input(rq).res]>>
            \o RunAlone(json_input(rq).rq, Tail(ops))
    ELSE <<[op |-> "data", res |-> data(rq)]>> \o RunAlone(after_data(rq), Tail(ops))

\* C10: the extracted state belongs to each request alone: in every interleaving
\* of operations on distinct requests, each request's results are those of the
\* same operations run on it alone, and no request's body is gone before an
\* operation on that request.
C10_RequestsIndependent ==
    \A r \in Reqs :
        /\ hist[r] = RunAlone([requests[r] EXCEPT !.taken = FALSE],
                              [i \in DOMAIN hist[r] |-> hist[r][i].op])
        /\ hist[r] = <<>> => ~requests[r].taken
        /\ 1 \in CallsOf(r) => ~IsErr(hist[r][1].res, "BodyAlreadyExtracted")

\* Both bodies were extracted by json_input, request 1 was called twice, and the
\* first call on each request obtained its body.
C10_Witness ==
    /\ CallsOf(1) = {1, 2}
    /\ CallsOf(2) = {1}
    /\ requests[1].taken /\ requests[2].taken
    /\ hist[1][1].res.ok
    /\ hist[1][2].res = Err(BodyAlreadyExtracted)
    /\ hist[2][1].res.ok

====
